---- MODULE Spec2Model ----
(***************************************************************************)
(* A model of the ubercluster broker (dgruber/ubercluster):                *)
(*   - the process tracker's StartProcess (simpletracker/os.go),           *)
(*   - the cluster-selection schedulers (cmd/uc/scheduler.go),             *)
(*   - the Inception aggregator (cmd/uc inception).                        *)
(* Go strings whose contents the code inspects (environment entries, job   *)
(* identifiers, addresses) are sequences of one-character strings, so that *)
(* formatting and splitting are computed and not assumed.                  *)
(***************************************************************************)
EXTENDS Integers, Sequences, FiniteSets, TLC

VARIABLES
    \* ---- process tracker (os.go) ----
    osEnv,      \* the broker's process environment: key |-> value
    spc,        \* position of every StartProcess call
    tmpl,       \* the JobTemplate every call was given
    mtx,        \* the mutex every call declares (os.go:54), TRUE = locked
    env,        \* the local env := currentEnv() of every call
    envBefore,  \* the process environment when the call read it
    sret,       \* what the call returned: [pid, err]
    procs,      \* OS processes started: call |-> environment inherited
    trackers,   \* the TrackProcess tasks started, in the order of their start
    redirects,  \* I/O redirection tasks started: set of <<call, stream>>
    copying,    \* calls whose input redirection task has opened its file
    crashed,    \* TRUE once a task of the broker process has panicked
    \* ---- scheduler (scheduler.go) ----
    conf,       \* conf.Cluster: the configured cluster names, in order
    resp,       \* what every cluster's drmsload endpoint answers
    schedPc,    \* position of the SelectCluster call
    dispatched, \* number of getClusterLoad tasks started so far
    fpc,        \* position of every getClusterLoad task
    lvLoad,     \* loadValues.load
    lvWait,     \* the counter of loadValues.WaitGroup
    selected,   \* what SelectCluster returned
    schedKind,  \* the scheduler implementation in use
    lvMutex,    \* loadValues.Mutex: the task holding it, 0 when free
    \* ---- probabilisticSelection on a given load vector ----
    pLoads,     \* the load vector handed to probabilisticSelection
    pPc,        \* position of the call
    pOut,       \* the draw made, the index returned, the name selected
    \* ---- Inception aggregator (cmd/uc inception) ----
    incept,     \* the Inception object: inceptionAddress and config
    listenAddress, \* the address inceptionMode serves on
    ipc,        \* position of the aggregator call in progress
    iop,        \* the operation called
    iarg,       \* its job identifier argument
    loopIndex,  \* clusters the fan-out loop has gone through
    rpc,        \* position of every requestJobInfos task
    jis,        \* what the request to every cluster answered (jis, ms, qs)
    held,       \* the ji.jobinfos a task read for its append
    jipJobinfos, \* jiProtected.jobinfos
    jipMutex,   \* jiProtected.Mutex: the task holding it, 0 when free
    jipWait,    \* the counter of jiProtected.WaitGroup
    sent,       \* requests sent to clusters
    logged,     \* diagnostics written to the log
    iresult,    \* what the call returned
    rarg,       \* the name list GetAllMachines or GetAllQueues was given
    allitems,   \* the local allmachines, allqueues or cat of the call
    outstanding, \* clusters a GetAll* request was sent to and not yet answered
    dead,       \* clusters that never answer a request
    \* ---- a job's process and its signals (os.go:101-133) ----
    platform,   \* whether the process table can be inspected on this OS
    pstate,     \* the run state of the process in the process table
    tstp,       \* what the job's program does with SIGTSTP
    stoppedFrom, \* the run state the process was stopped in
    signalled,  \* the last signal sent to the process, and what kill returned
    observed,   \* what the last stateByPid call got and returned
    \* ---- job info conversion of the DRMAA2 binding ----
    cji,        \* the C job info handed to goJobInfo
    jinfo       \* the JobInfo goJobInfo returned

trackerVars == <<osEnv, spc, tmpl, mtx, env, envBefore, sret, procs, trackers, redirects,
                 copying, crashed>>

schedVars == <<conf, resp, schedPc, dispatched, fpc, lvLoad, lvWait, selected,
               schedKind, lvMutex>>

probVars == <<pLoads, pPc, pOut>>

inceptVars == <<incept, listenAddress, ipc, iop, iarg, loopIndex, rpc, jis, held,
                jipJobinfos, jipMutex, jipWait, sent, logged, iresult,
                rarg, allitems, outstanding, dead>>

readVars == <<rarg, allitems, outstanding, dead>>

procVars == <<platform, pstate, tstp, stoppedFrom, signalled, observed>>

infoVars == <<cji, jinfo>>

vars == <<trackerVars, schedVars, probVars, inceptVars, procVars, infoVars>>

----------------------------------------------------------------------------
(* Bounds *)

NumCalls == 2

NumClusters == 3

NumPeers == 2

MaxIdLen == 5

----------------------------------------------------------------------------
(* Helpers on finite functions and sequences *)

Range(s) == {s[i] : i \in DOMAIN s}

EmptyMap == [x \in {} |-> <<>>]

Restrict(f, S) == [x \in S |-> f[x]]

----------------------------------------------------------------------------
(* The process environment, as package os / syscall keep it *)

\* syscall.Getenv: the value of key, "" when the key is not set
Getenv(e, key) == IF key \in DOMAIN e THEN e[key] ELSE <<>>

\* syscall.Setenv: EINVAL (nothing set) for an empty key or one holding '='
Setenv(e, key, value) ==
    IF key = <<>> \/ "=" \in Range(key)
    THEN e
    ELSE [k \in DOMAIN e \cup {key} |-> IF k = key THEN value ELSE e[k]]

\* syscall.Unsetenv: removes key when it is set
Unsetenv(e, key) == Restrict(e, DOMAIN e \ {key})

\* os.Environ: the entries "key=value"
Environ(e) == {k \o <<"=">> \o e[k] : k \in DOMAIN e}

RECURSIVE UnsetAll(_, _)
UnsetAll(e, keys) ==
    IF keys = {} THEN e
    ELSE LET k == CHOOSE x \in keys : TRUE
         IN  UnsetAll(Unsetenv(e, k), keys \ {k})

RECURSIVE SetAll(_, _, _)
SetAll(e, m, keys) ==
    IF keys = {} THEN e
    ELSE LET k == CHOOSE x \in keys : TRUE
         IN  SetAll(Setenv(e, k, m[k]), m, keys \ {k})

\* os.go:14-20
currentEnv(e) == [s \in Environ(e) |-> Getenv(e, s)]

\* os.go:22-29
restoreEnv(e, saved) == SetAll(UnsetAll(e, Environ(e)), saved, DOMAIN saved)

\* os.go:59-61
applyJobEnvironment(e, jobEnv) == SetAll(e, jobEnv, DOMAIN jobEnv)

----------------------------------------------------------------------------
(* StartProcess (os.go:31-78) *)

Calls == 1..NumCalls

KeyA == <<"A">>
KeyB == <<"B">>

InitEnv == (KeyA :> <<"1">>)

JobTemplate(cmd, jobEnv, inPath, outPath, errPath) ==
    [RemoteCommand |-> cmd, JobEnvironment |-> jobEnv,
     InputPath |-> inPath, OutputPath |-> outPath, ErrorPath |-> errPath]

Templates ==
    { JobTemplate("", EmptyMap, "", "", ""),
      JobTemplate("", (KeyB :> <<"2">>), "in", "out", ""),
      JobTemplate("sleep", EmptyMap, "", "", ""),
      JobTemplate("sleep", (KeyB :> <<"2">>), "in", "out", ""),
      JobTemplate("sleep", (KeyA :> <<"9">>), "", "", "err") }

NoReturn == [pid |-> -1, err |-> "pending"]

\* validateJobTemplate: a template without a RemoteCommand is invalid
validateJobTemplate(t) == t.RemoteCommand # ""

\* os.go:34: if valid, err := validateJobTemplate(t); valid == false
RejectsNothing(t) == FALSE
Rejected(t) == validateJobTemplate(t) = FALSE

\* os.go:38-52: one copy task for every stream with a path
RedirectTasks(c, t) ==
    {<<c, "stdin">>  : x \in IF t.InputPath  # "" THEN {1} ELSE {}} \cup
    {<<c, "stdout">> : x \in IF t.OutputPath # "" THEN {1} ELSE {}} \cup
    {<<c, "stderr">> : x \in IF t.ErrorPath  # "" THEN {1} ELSE {}}

\* the jobid argument of every call
JobIdOf(c) == "job" \o ToString(c)

\* os.go:69: go TrackProcess(cmd, jobid, finishedJobChannel)
TrackProcess(c) == [cmd |-> c, jobid |-> JobIdOf(c), channel |-> "finishedJobChannel"]

\* os.go:63-69: the supervisor is started only after cmd.Start() succeeded
SupervisorsAlways(c, started) == <<TrackProcess(c)>>
Supervisors(c, started) == IF started THEN <<TrackProcess(c)>> ELSE <<>>

TrackerInit ==
    /\ osEnv = InitEnv
    /\ spc = [c \in Calls |-> "idle"]
    /\ tmpl \in [Calls -> Templates]
    /\ mtx = [c \in Calls |-> FALSE]
    /\ env = [c \in Calls |-> EmptyMap]
    /\ envBefore = [c \in Calls |-> EmptyMap]
    /\ sret = [c \in Calls |-> NoReturn]
    /\ procs = EmptyMap
    /\ trackers = <<>>
    /\ redirects = {}
    /\ copying = {}
    /\ crashed = FALSE

\* os.go:32-52: validation, then the redirection tasks
StartBegin(c) ==
    /\ ~crashed
    /\ spc[c] = "idle"
    /\ IF Rejected(tmpl[c])
       THEN /\ spc' = [spc EXCEPT ![c] = "done"]
            /\ sret' = [sret EXCEPT ![c] = [pid |-> 0, err |-> "InvalidArgument"]]
            /\ UNCHANGED redirects
       ELSE /\ spc' = [spc EXCEPT ![c] = "lock"]
            /\ redirects' = redirects \cup RedirectTasks(c, tmpl[c])
            /\ UNCHANGED sret
    /\ UNCHANGED <<osEnv, tmpl, mtx, env, envBefore, procs, trackers>>
    /\ UNCHANGED <<copying, crashed>>
    /\ UNCHANGED <<schedVars, probVars, inceptVars, procVars, infoVars>>

\* os.go:54-56: var mtx sync.Mutex; mtx.Lock()
StartLock(c) ==
    /\ ~crashed
    /\ spc[c] = "lock"
    /\ mtx[c] = FALSE
    /\ mtx' = [mtx EXCEPT ![c] = TRUE]
    /\ spc' = [spc EXCEPT ![c] = "save"]
    /\ UNCHANGED <<osEnv, tmpl, env, envBefore, sret, procs, trackers, redirects>>
    /\ UNCHANGED <<copying, crashed>>
    /\ UNCHANGED <<schedVars, probVars, inceptVars, procVars, infoVars>>

\* os.go:57: env := currentEnv()
StartSaveEnv(c) ==
    /\ ~crashed
    /\ spc[c] = "save"
    /\ env' = [env EXCEPT ![c] = currentEnv(osEnv)]
    /\ envBefore' = [envBefore EXCEPT ![c] = osEnv]
    /\ spc' = [spc EXCEPT ![c] = "overlay"]
    /\ UNCHANGED <<osEnv, tmpl, mtx, sret, procs, trackers, redirects>>
    /\ UNCHANGED <<copying, crashed>>
    /\ UNCHANGED <<schedVars, probVars, inceptVars, procVars, infoVars>>

\* os.go:59-61
StartOverlay(c) ==
    /\ ~crashed
    /\ spc[c] = "overlay"
    /\ osEnv' = applyJobEnvironment(osEnv, tmpl[c].JobEnvironment)
    /\ spc' = [spc EXCEPT ![c] = "start"]
    /\ UNCHANGED <<tmpl, mtx, env, envBefore, sret, procs, trackers, redirects>>
    /\ UNCHANGED <<copying, crashed>>
    /\ UNCHANGED <<schedVars, probVars, inceptVars, procVars, infoVars>>

\* os.go:63-69: cmd.Start() succeeds and the supervisor is started
StartSpawn(c) ==
    /\ ~crashed
    /\ spc[c] = "start"
    /\ procs' = [k \in DOMAIN procs \cup {c} |-> IF k = c THEN osEnv ELSE procs[k]]
    /\ trackers' = trackers \o Supervisors(c, TRUE)
    /\ spc' = [spc EXCEPT ![c] = "restore"]
    /\ UNCHANGED <<osEnv, tmpl, mtx, env, envBefore, sret, redirects>>
    /\ UNCHANGED <<copying, crashed>>
    /\ UNCHANGED <<schedVars, probVars, inceptVars, procVars, infoVars>>

\* os.go:63-66: cmd.Start() fails
StartSpawnFails(c) ==
    /\ ~crashed
    /\ spc[c] = "start"
    /\ mtx' = [mtx EXCEPT ![c] = FALSE]
    /\ sret' = [sret EXCEPT ![c] = [pid |-> 0, err |-> "StartError"]]
    /\ trackers' = trackers \o Supervisors(c, FALSE)
    /\ spc' = [spc EXCEPT ![c] = "done"]
    /\ UNCHANGED <<osEnv, tmpl, env, envBefore, procs, redirects>>
    /\ UNCHANGED <<copying, crashed>>
    /\ UNCHANGED <<schedVars, probVars, inceptVars, procVars, infoVars>>

\* os.go:71
StartRestore(c) ==
    /\ ~crashed
    /\ spc[c] = "restore"
    /\ osEnv' = restoreEnv(osEnv, env[c])
    /\ spc' = [spc EXCEPT ![c] = "unlock"]
    /\ UNCHANGED <<tmpl, mtx, env, envBefore, sret, procs, trackers, redirects>>
    /\ UNCHANGED <<copying, crashed>>
    /\ UNCHANGED <<schedVars, probVars, inceptVars, procVars, infoVars>>

\* os.go:72-77: cmd.Process is set once cmd.Start() succeeded
StartReturn(c) ==
    /\ ~crashed
    /\ spc[c] = "unlock"
    /\ mtx' = [mtx EXCEPT ![c] = FALSE]
    /\ sret' = [sret EXCEPT ![c] = [pid |-> c, err |-> "nil"]]
    /\ spc' = [spc EXCEPT ![c] = "done"]
    /\ UNCHANGED <<osEnv, tmpl, env, envBefore, procs, trackers, redirects>>
    /\ UNCHANGED <<copying, crashed>>
    /\ UNCHANGED <<schedVars, probVars, inceptVars, procVars, infoVars>>

\* os.go:89-99: the input redirection task opens the file; a file that
\* cannot be opened makes the task panic, which ends the broker process
redirectIn(c) ==
    /\ ~crashed
    /\ <<c, "stdin">> \in redirects
    /\ c \notin copying
    /\ \E opened \in BOOLEAN :
        IF opened
        THEN copying' = copying \cup {c} /\ UNCHANGED crashed
        ELSE crashed' = TRUE /\ UNCHANGED copying
    /\ UNCHANGED <<osEnv, spc, tmpl, mtx, env, envBefore, sret, procs, trackers, redirects>>
    /\ UNCHANGED <<schedVars, probVars, inceptVars, procVars, infoVars>>

TrackerNext ==
    \E c \in Calls :
        \/ StartBegin(c)
        \/ StartLock(c)
        \/ StartSaveEnv(c)
        \/ StartOverlay(c)
        \/ StartSpawn(c)
        \/ StartSpawnFails(c)
        \/ StartRestore(c)
        \/ StartReturn(c)
        \/ redirectIn(c)

----------------------------------------------------------------------------
(* The schedulers (scheduler.go). A load is a float64 in the code; here *)
(* it is a whole number of ten-thousandths, the resolution at which     *)
(* probabilisticSelection weighs it (scheduler.go:117).                 *)

LoadScale == 10000

MaxFloat64 == 1000000

ReportedLoads == {0, 1000, 5000, 9000, LoadScale}

Responses ==
    {[kind |-> "fetchError", load |-> 0], [kind |-> "decodeError", load |-> 0]}
        \cup {[kind |-> "ok", load |-> l] : l \in ReportedLoads}

ClusterName(i) == "c" \o ToString(i)

NamedConfig(n) == [i \in 1..n |-> ClusterName(i)]

\* the configurations: up to NumClusters clusters, all named, or all but
\* one named (the name of a cluster is whatever the configuration file
\* holds, the empty string included)
Configs ==
    UNION {{NamedConfig(n)} \cup {[NamedConfig(n) EXCEPT ![k] = ""] : k \in 1..n} :
           n \in 0..NumClusters}

\* scheduler.go:83, 181, 194: the three implementations of SchedulerImpl
SchedulerKinds == {"prob", "load", "rand"}

Indexes == DOMAIN conf

\* scheduler.go:143-152: what the task leaves in lv.load for the answer r.
\* The decoded value is stored in the branch taken when Decode returns an
\* error, where the variable load still holds its zero value; a value that
\* decoded without error is not stored.
getClusterLoadStore(load, index, r) ==
    IF r.kind = "fetchError" THEN load
    ELSE IF r.kind = "decodeError" THEN [load EXCEPT ![index] = 0]
    ELSE load

\* scheduler.go:173: if v < min
LowerOrEqual(v, min) == v <= min
Lower(v, min) == v < min

\* scheduler.go:169-179
RECURSIVE minLoadFrom(_, _, _, _)
minLoadFrom(load, k, min, index) ==
    IF k > Len(load) THEN index
    ELSE IF Lower(load[k], min) THEN minLoadFrom(load, k + 1, load[k], k)
    ELSE minLoadFrom(load, k + 1, min, index)

\* the index minLoad returns, counted from 1 as the sequences here are
minLoad(load) == minLoadFrom(load, 1, MaxFloat64, 1)

\* scheduler.go:191: conf.Cluster[minLoad(load)].Name; indexing an empty
\* cluster list panics
LoadBasedSelect(c, load) ==
    IF minLoad(load) \in DOMAIN c THEN c[minLoad(load)] ELSE "panic"

\* scheduler.go:147-148: the answers for which the task assigns
\* lv.load[index]
StoresLoad(r) == r.kind = "decodeError"

\* scheduler.go:112, 124, 133: the value returned when nothing is selected
NoSelection == -1

\* Loads v for which the float64 product (1.0 - v) * 10000 falls just short
\* of the whole number LoadScale - v (0.9: 999.9999999999998,
\* 0.9997: 2.9999999999996696, 0.9998: 1.9999999999997797,
\* 0.9999: 0.9999999999998899), so that int64() truncates to one less.
InexactLoads == {9000, 9997, 9998, 9999}

\* scheduler.go:117, 119: int64((1.0 - v) * 10000)
Int64Weight(v) ==
    IF v \in InexactLoads THEN (LoadScale - v) - 1 ELSE LoadScale - v

\* scheduler.go:115-121: likelyhood[k], the weights accumulated up to k
RECURSIVE CumulativeWeight(_, _)
CumulativeWeight(loads, k) ==
    IF k = 0 THEN 0 ELSE CumulativeWeight(loads, k - 1) + Int64Weight(loads[k])

likelyhood(loads) == [k \in DOMAIN loads |-> CumulativeWeight(loads, k)]

\* scheduler.go:123
NoneSelectableBelow(total) == total < 0
NoneSelectable(total) == total <= 0

\* rand.Int63n(n): a number of [0, n); it panics when n <= 0
Int63n(n) == 0..(n - 1)

\* scheduler.go:129-133: the index (counted from 0, as in the code) of the
\* first accumulated weight above the draw
ReachesOrExceeds(v, selection) == v >= selection
Exceeds(v, selection) == v > selection

RECURSIVE FirstAbove(_, _, _)
FirstAbove(L, selection, k) ==
    IF k > Len(L) THEN NoSelection
    ELSE IF Exceeds(L[k], selection) THEN k - 1
    ELSE FirstAbove(L, selection, k + 1)

\* The draws that decide the outcome: the loop at scheduler.go:129-133
\* changes its answer only where the draw crosses an accumulated weight,
\* so the draws at and next to every accumulated weight, the smallest and
\* the largest draw stand for all of Int63n(n).
CriticalDraws(L) ==
    {d \in {0, L[Len(L)] - 2} \cup UNION {{L[k] - 1, L[k]} : k \in DOMAIN L} :
        d \in Int63n(L[Len(L)] - 1)}

NoSelectionMade == [panic |-> FALSE, selection |-> NoSelection, draw |-> -1]

\* scheduler.go:127: rand.Int63n(likelyhood[len-1] - 1), then the loop
probabilisticDraw(L, draws) ==
    IF L[Len(L)] - 1 <= 0
    THEN {[panic |-> TRUE, selection |-> NoSelection, draw |-> -1]}
    ELSE {[panic |-> FALSE, selection |-> FirstAbove(L, d, 1), draw |-> d] :
          d \in draws}

\* scheduler.go:106-134: every outcome of probabilisticSelection(loads)
probabilisticSelection(loads) ==
    IF Len(loads) <= 0 THEN {NoSelectionMade}
    ELSE IF NoneSelectable(likelyhood(loads)[Len(loads)]) THEN {NoSelectionMade}
    ELSE probabilisticDraw(likelyhood(loads), CriticalDraws(likelyhood(loads)))

\* scheduler.go:97-103
ProbSchedName(c, out) ==
    IF out.panic THEN "panic"
    ELSE IF out.selection >= 0 THEN c[out.selection + 1]
    ELSE "default"

\* scheduler.go:202: rand.Intn(len(conf.Cluster))
RandomIndexes(c) == 1..Len(c)

SchedInit ==
    /\ conf \in Configs
    /\ resp \in [DOMAIN conf -> Responses]
    /\ schedPc = "idle"
    /\ dispatched = 0
    /\ fpc = [i \in DOMAIN conf |-> "none"]
    /\ lvLoad = <<>>
    /\ lvWait = 0
    /\ selected = ""
    /\ schedKind \in SchedulerKinds
    /\ lvMutex = 0

\* nothing of the scheduler runs
SchedQuiet ==
    /\ conf = <<>>
    /\ resp = <<>>
    /\ schedPc = "idle"
    /\ dispatched = 0
    /\ fpc = <<>>
    /\ lvLoad = <<>>
    /\ lvWait = 0
    /\ selected = ""
    /\ schedKind = "load"
    /\ lvMutex = 0

\* scheduler.go:188-190 and 157-159: SelectCluster enters getAllLoadValues
LoadBasedSelectCluster ==
    /\ schedKind = "load"
    /\ schedPc = "idle"
    /\ lvLoad' = [i \in DOMAIN conf |-> 0]
    /\ lvWait' = Len(conf)
    /\ schedPc' = "dispatch"
    /\ UNCHANGED <<conf, resp, dispatched, fpc, selected, schedKind, lvMutex>>
    /\ UNCHANGED <<trackerVars, probVars, inceptVars, procVars, infoVars>>

\* scheduler.go:160-164: go getClusterLoad(&lv, i, ...)
DispatchFetch ==
    /\ schedPc = "dispatch"
    /\ dispatched < Len(conf)
    /\ dispatched' = dispatched + 1
    /\ fpc' = [fpc EXCEPT ![dispatched + 1] = "spawned"]
    /\ UNCHANGED <<conf, resp, schedPc, lvLoad, lvWait, selected, schedKind, lvMutex>>
    /\ UNCHANGED <<trackerVars, probVars, inceptVars, procVars, infoVars>>

\* scheduler.go:160, 165: the loop is over, lv.Wait() is entered
DispatchEnd ==
    /\ schedPc = "dispatch"
    /\ dispatched = Len(conf)
    /\ schedPc' = "wait"
    /\ UNCHANGED <<conf, resp, dispatched, fpc, lvLoad, lvWait, selected, schedKind, lvMutex>>
    /\ UNCHANGED <<trackerVars, probVars, inceptVars, procVars, infoVars>>

\* scheduler.go:143-152
getClusterLoad(i) ==
    /\ fpc[i] = "spawned"
    /\ lvLoad' = getClusterLoadStore(lvLoad, i, resp[i])
    /\ fpc' = [fpc EXCEPT ![i] = "fetched"]
    /\ UNCHANGED <<conf, resp, schedPc, dispatched, lvWait, selected, schedKind, lvMutex>>
    /\ UNCHANGED <<trackerVars, probVars, inceptVars, procVars, infoVars>>

\* scheduler.go:143-153: lv.Done() stands behind the if, so the task
\* signals whatever the fetch gave
SignalsAfterFetchOnly(r) == r.kind # "fetchError"
SignalsDone(r) == TRUE

\* scheduler.go:153: lv.Done()
getClusterLoadDone(i) ==
    /\ fpc[i] = "fetched"
    /\ lvWait' = IF SignalsDone(resp[i]) THEN lvWait - 1 ELSE lvWait
    /\ fpc' = [fpc EXCEPT ![i] = "finished"]
    /\ UNCHANGED <<conf, resp, schedPc, dispatched, lvLoad, selected, schedKind, lvMutex>>
    /\ UNCHANGED <<trackerVars, probVars, inceptVars, procVars, infoVars>>

\* scheduler.go:165-166 and 191: lv.Wait() returns, the cluster is chosen
LoadBasedReturn ==
    /\ schedKind = "load"
    /\ schedPc = "wait"
    /\ lvWait = 0
    /\ selected' = LoadBasedSelect(conf, lvLoad)
    /\ schedPc' = "done"
    /\ UNCHANGED <<conf, resp, dispatched, fpc, lvLoad, lvWait, schedKind, lvMutex>>
    /\ UNCHANGED <<trackerVars, probVars, inceptVars, procVars, infoVars>>

\* scheduler.go:94-96 and 157-159: ProbSched.SelectCluster enters
\* getAllLoadValues
ProbSelectCluster ==
    /\ schedKind = "prob"
    /\ schedPc = "idle"
    /\ lvLoad' = [i \in DOMAIN conf |-> 0]
    /\ lvWait' = Len(conf)
    /\ schedPc' = "dispatch"
    /\ UNCHANGED <<conf, resp, dispatched, fpc, selected, schedKind, lvMutex>>
    /\ UNCHANGED <<trackerVars, probVars, inceptVars, procVars, infoVars>>

\* scheduler.go:165-166 and 96-103: lv.Wait() returns, a cluster is drawn
ProbReturn ==
    /\ schedKind = "prob"
    /\ schedPc = "wait"
    /\ lvWait = 0
    /\ \E out \in probabilisticSelection(lvLoad) :
           selected' = ProbSchedName(conf, out)
    /\ schedPc' = "done"
    /\ UNCHANGED <<conf, resp, dispatched, fpc, lvLoad, lvWait, schedKind, lvMutex>>
    /\ UNCHANGED <<trackerVars, probVars, inceptVars, procVars, infoVars>>

\* scheduler.go:201-203: rand.Intn panics for an empty cluster list
RandomSelectCluster ==
    /\ schedKind = "rand"
    /\ schedPc = "idle"
    /\ IF Len(conf) = 0
       THEN selected' = "panic"
       ELSE \E i \in RandomIndexes(conf) : selected' = conf[i]
    /\ schedPc' = "done"
    /\ UNCHANGED <<conf, resp, dispatched, fpc, lvLoad, lvWait, schedKind, lvMutex>>
    /\ UNCHANGED <<trackerVars, probVars, inceptVars, procVars, infoVars>>

SchedNext ==
    \/ LoadBasedSelectCluster
    \/ ProbSelectCluster
    \/ RandomSelectCluster
    \/ ProbReturn
    \/ DispatchFetch
    \/ DispatchEnd
    \/ \E i \in Indexes : getClusterLoad(i)
    \/ \E i \in Indexes : getClusterLoadDone(i)
    \/ LoadBasedReturn

----------------------------------------------------------------------------
(* probabilisticSelection and ProbSched.SelectCluster on a given load      *)
(* vector: what the selection does with the loads getAllLoadValues could   *)
(* hand it.                                                                *)

\* 0.0, 0.5, 0.9998, 1.0 and 1.5
ProbLoads == {0, 5000, 9998, LoadScale, 15000}

LoadVectors == UNION {[1..n -> ProbLoads] : n \in 0..NumClusters}

ProbInit ==
    /\ pLoads \in LoadVectors
    /\ pPc = "call"
    /\ pOut = [by |-> "none", panic |-> FALSE, selection |-> NoSelection,
               draw |-> -1, name |-> ""]

\* no selection on a given vector runs
ProbQuiet ==
    /\ pLoads = <<>>
    /\ pPc = "none"
    /\ pOut = [by |-> "none", panic |-> FALSE, selection |-> NoSelection,
               draw |-> -1, name |-> ""]

\* scheduler.go:96-103 on the vector pLoads
ProbSchedSelectCluster ==
    /\ pPc = "call"
    /\ \E out \in probabilisticSelection(pLoads) :
           pOut' = [by |-> "prob", panic |-> out.panic, selection |-> out.selection,
                    draw |-> out.draw,
                    name |-> ProbSchedName(NamedConfig(Len(pLoads)), out)]
    /\ pPc' = "done"
    /\ UNCHANGED pLoads
    /\ UNCHANGED <<trackerVars, schedVars, inceptVars, procVars, infoVars>>

\* scheduler.go:191 on the vector pLoads: conf.Cluster[minLoad(load)].Name,
\* the index counted from 0 as in the code
LoadBasedSchedSelectCluster ==
    /\ pPc = "call"
    /\ pOut' = [by |-> "load", panic |-> pLoads = <<>>,
                selection |-> minLoad(pLoads) - 1, draw |-> -1,
                name |-> LoadBasedSelect(NamedConfig(Len(pLoads)), pLoads)]
    /\ pPc' = "done"
    /\ UNCHANGED pLoads
    /\ UNCHANGED <<trackerVars, schedVars, inceptVars, procVars, infoVars>>

ProbNext ==
    \/ ProbSchedSelectCluster
    \/ LoadBasedSchedSelectCluster

----------------------------------------------------------------------------
(* The Inception aggregator *)

DefaultName == <<"d", "e", "f", "a", "u", "l", "t">>

PeerNames == {DefaultName, <<"a">>}

PeerAddresses == {<<"h", "1">>, <<"h", "2">>}

V1 == <<"v", "1">>

PeerClusters ==
    {[Name |-> n, Address |-> a, ProtocolVersion |-> V1] :
        n \in PeerNames, a \in PeerAddresses}

PeerConfigs == UNION {[1..n -> PeerClusters] : n \in 0..NumPeers}

IdAlphabet == {"7", "@", "a"}

JobIds == UNION {[1..n -> IdAlphabet] : n \in 0..MaxIdLen}

Operations == {"suspend", "resume", "terminate"}

\* Go slices: a nil slice and an empty one differ
NilSlice == [nil |-> TRUE, elems |-> <<>>]

Slice(elems) == [nil |-> FALSE, elems |-> elems]

\* append(a, b...): appending nothing to a nil slice leaves it nil
GoAppend(a, b) == [nil |-> a.nil /\ b.elems = <<>>, elems |-> a.elems \o b.elems]

\* what request.GetJobs can answer: nil when the request failed
JobsAnswers == {NilSlice, Slice(<<>>), Slice(<<"j1">>), Slice(<<"j2", "j1">>)}

NoJob == "nil"

\* inception 38-43: inceptionAddress is left at its zero value
NewInception(config) == [inceptionAddress |-> <<>>, config |-> config]

\* inception 74: fmt.Sprintf("%s/", c.Address) == i.inceptionAddress
IsOwnAddress(i, c) == (c.Address \o <<"/">>) = i.inceptionAddress

\* inception 79: fmt.Sprintf("%s/v1", c.Address)
JobInfosAddress(c) == c.Address \o <<"/">> \o V1

\* inception 99: fmt.Sprintf("%s%s", address, version)
JobRequest(c) == c.Address \o c.ProtocolVersion

\* strings.Contains(s, "@")
ContainsAt(s) == "@" \in Range(s)

\* strings.Split(s, "@")
RECURSIVE Split(_)
Split(s) ==
    IF ~ContainsAt(s) THEN <<s>>
    ELSE LET p == CHOOSE i \in DOMAIN s : s[i] = "@" /\ \A j \in 1..(i - 1) : s[j] # "@"
         IN  <<SubSeq(s, 1, p - 1)>> \o Split(SubSeq(s, p + 1, Len(s)))

\* inception 119: len(jobAtCluster) == 2
AtLeastTwoParts(parts) == Len(parts) >= 2
IsJobAtCluster(parts) == Len(parts) = 2

\* inception 120: getJobFromCluster(i, jobAtCluster[1], jobAtCluster[0])
RouteSwapped(parts) == [cluster |-> parts[1], job |-> parts[2]]
Route(parts) == [cluster |-> parts[2], job |-> parts[1]]

\* inception 89-97: the first configured cluster of that name, 0 when none
FindCluster(config, clustername) ==
    IF \E k \in DOMAIN config : config[k].Name = clustername
    THEN CHOOSE k \in DOMAIN config :
            /\ config[k].Name = clustername
            /\ \A j \in 1..(k - 1) : config[j].Name # clustername
    ELSE 0

\* inception 87-110: the request getJobFromCluster sends, if any
getJobFromCluster(i, clustername, jobid) ==
    LET k == FindCluster(i.config, clustername)
    IN  IF k # 0 /\ i.config[k].Address # <<>>
        THEN {[peer |-> k, op |-> "GetJob", to |-> JobRequest(i.config[k]), jobid |-> jobid]}
        ELSE {}

\* inception 112-130: the cluster and job GetJobInfo asks for; cluster is
\* "none" for an identifier it does not accept
GetJobInfoRoute(jobid) ==
    IF ContainsAt(jobid)
    THEN IF IsJobAtCluster(Split(jobid))
         THEN Route(Split(jobid))
         ELSE [cluster |-> "none", job |-> jobid]
    ELSE [cluster |-> DefaultName, job |-> jobid]

\* sync.Mutex.Lock can be taken when nobody holds the mutex
LockAlwaysFree(m) == TRUE
LockFree(m) == m = 0

Peers == DOMAIN incept.config

\* what request.GetMachines, GetQueues and GetJobCategories can answer: nil
\* when the request failed
NameAnswers == {NilSlice, Slice(<<>>), Slice(<<"n1">>), Slice(<<"n2", "n1">>)}

\* the name lists GetAllMachines and GetAllQueues are called with
NameLists == {NilSlice, Slice(<<"n1">>), Slice(<<"n9">>)}

\* inception 140, 168, 200: GetClusterAddress(c.Name) fails, or gives the
\* address configured for that name
GetClusterAddress(i, c) ==
    {[err |-> TRUE, address |-> <<>>],
     [err |-> FALSE, address |-> i.config[FindCluster(i.config, c.Name)].Address]}

\* inception 145, 173, 205: the request every operation sends
ReadRequestOp(op) ==
    CASE op = "GetAllMachines" -> "GetMachines"
      [] op = "GetAllQueues" -> "GetQueues"
      [] OTHER -> "GetJobCategories"

\* inception 210-220
DRMSVersion(i) == <<"0", ".", "1">>

DRMSName(i) == <<"u", "b", "e", "r", "c", "l", "u", "s", "t", "e", "r">>

DRMSLoadMerged(i) == (LoadScale \div 2) * Len(i.config)
DRMSLoad(i) == LoadScale \div 2

\* request.GetJobs on a cluster that never answers gives up when the
\* timeout of the call expires and reports the failure as nil
NeverAnswered(k, deadPeers) == IF k \in deadPeers THEN {} ELSE JobsAnswers
GetJobs(k, deadPeers) == IF k \in deadPeers THEN {NilSlice} ELSE JobsAnswers

InceptInitWith(deadPeers) ==
    /\ \E config \in PeerConfigs : incept = NewInception(config)
    /\ listenAddress \in PeerAddresses
    /\ ipc = "idle"
    /\ iop = "none"
    /\ iarg = <<>>
    /\ loopIndex = 0
    /\ rpc = [k \in DOMAIN incept.config |-> "none"]
    /\ jis = [k \in DOMAIN incept.config |-> NilSlice]
    /\ held = [k \in DOMAIN incept.config |-> NilSlice]
    /\ jipJobinfos = NilSlice
    /\ jipMutex = 0
    /\ jipWait = 0
    /\ sent = {}
    /\ logged = {}
    /\ iresult = "pending"
    /\ rarg = NilSlice
    /\ allitems = NilSlice
    /\ outstanding = {}
    /\ dead \in (IF deadPeers THEN SUBSET DOMAIN incept.config ELSE {{}})

\* every configured cluster answers its requests
InceptInit == InceptInitWith(FALSE)

\* some configured clusters may never answer
FilterInit == InceptInitWith(TRUE)

InceptQuiet ==
    /\ incept = NewInception(<<>>)
    /\ listenAddress = <<"h", "1">>
    /\ ipc = "done"
    /\ iop = "none"
    /\ iarg = <<>>
    /\ loopIndex = 0
    /\ rpc = <<>>
    /\ jis = <<>>
    /\ held = <<>>
    /\ jipJobinfos = NilSlice
    /\ jipMutex = 0
    /\ jipWait = 0
    /\ sent = {}
    /\ logged = {}
    /\ iresult = "pending"
    /\ rarg = NilSlice
    /\ allitems = NilSlice
    /\ outstanding = {}
    /\ dead = {}

\* inception 68-71
GetJobInfosByFilter ==
    /\ ipc = "idle"
    /\ iop' = "GetJobInfosByFilter"
    /\ jipJobinfos' = Slice(<<>>)
    /\ jipWait' = Len(incept.config)
    /\ ipc' = "fanout"
    /\ UNCHANGED <<incept, listenAddress, iarg, loopIndex, rpc, jis, held, jipMutex,
                   sent, logged, iresult>>
    /\ UNCHANGED <<trackerVars, schedVars, probVars, readVars, procVars, infoVars>>

\* inception 73-80: one cluster of the loop
FanOutNext ==
    /\ ipc = "fanout"
    /\ loopIndex < Len(incept.config)
    /\ loopIndex' = loopIndex + 1
    /\ IF IsOwnAddress(incept, incept.config[loopIndex + 1])
       THEN /\ jipWait' = jipWait - 1
            /\ logged' = logged \cup {"Skipping own address"}
            /\ UNCHANGED rpc
       ELSE /\ rpc' = [rpc EXCEPT ![loopIndex + 1] = "spawned"]
            /\ UNCHANGED <<jipWait, logged>>
    /\ UNCHANGED <<incept, listenAddress, ipc, iop, iarg, jis, held, jipJobinfos,
                   jipMutex, sent, iresult>>
    /\ UNCHANGED <<trackerVars, schedVars, probVars, readVars, procVars, infoVars>>

\* inception 73, 82: the loop is over, jip.Wait() is entered
FanOutEnd ==
    /\ ipc = "fanout"
    /\ loopIndex = Len(incept.config)
    /\ ipc' = "wait"
    /\ UNCHANGED <<incept, listenAddress, iop, iarg, loopIndex, rpc, jis, held,
                   jipJobinfos, jipMutex, jipWait, sent, logged, iresult>>
    /\ UNCHANGED <<trackerVars, schedVars, probVars, readVars, procVars, infoVars>>

\* inception 60-65: a nil answer goes straight to ji.Done(), any other
\* through the locked append first
AfterAnswerNoSignal(answer) == IF answer.nil THEN "finished" ELSE "lock"
AfterAnswer(answer) == IF answer.nil THEN "signal" ELSE "lock"

\* inception 57-60: jis := i.request.GetJobs(address, state, "")
requestJobInfos(k) ==
    /\ rpc[k] = "spawned"
    /\ \E answer \in GetJobs(k, dead) :
        /\ jis' = [jis EXCEPT ![k] = answer]
        /\ rpc' = [rpc EXCEPT ![k] = AfterAnswer(answer)]
    /\ sent' = sent \cup {[peer |-> k, op |-> "GetJobs",
                           to |-> JobInfosAddress(incept.config[k]), jobid |-> <<>>]}
    /\ UNCHANGED <<incept, listenAddress, ipc, iop, iarg, loopIndex, held, jipJobinfos,
                   jipMutex, jipWait, logged, iresult>>
    /\ UNCHANGED <<trackerVars, schedVars, probVars, readVars, procVars, infoVars>>

\* inception 61: ji.Lock()
requestJobInfosLock(k) ==
    /\ rpc[k] = "lock"
    /\ LockFree(jipMutex)
    /\ jipMutex' = k
    /\ rpc' = [rpc EXCEPT ![k] = "read"]
    /\ UNCHANGED <<incept, listenAddress, ipc, iop, iarg, loopIndex, jis, held,
                   jipJobinfos, jipWait, sent, logged, iresult>>
    /\ UNCHANGED <<trackerVars, schedVars, probVars, readVars, procVars, infoVars>>

\* inception 62: the right-hand side reads ji.jobinfos
requestJobInfosRead(k) ==
    /\ rpc[k] = "read"
    /\ held' = [held EXCEPT ![k] = jipJobinfos]
    /\ rpc' = [rpc EXCEPT ![k] = "write"]
    /\ UNCHANGED <<incept, listenAddress, ipc, iop, iarg, loopIndex, jis, jipJobinfos,
                   jipMutex, jipWait, sent, logged, iresult>>
    /\ UNCHANGED <<trackerVars, schedVars, probVars, readVars, procVars, infoVars>>

\* inception 62: ji.jobinfos = append(..., jis...)
requestJobInfosAppend(k) ==
    /\ rpc[k] = "write"
    /\ jipJobinfos' = GoAppend(held[k], jis[k])
    /\ rpc' = [rpc EXCEPT ![k] = "unlock"]
    /\ UNCHANGED <<incept, listenAddress, ipc, iop, iarg, loopIndex, jis, held,
                   jipMutex, jipWait, sent, logged, iresult>>
    /\ UNCHANGED <<trackerVars, schedVars, probVars, readVars, procVars, infoVars>>

\* inception 63: ji.Unlock()
requestJobInfosUnlock(k) ==
    /\ rpc[k] = "unlock"
    /\ jipMutex' = 0
    /\ rpc' = [rpc EXCEPT ![k] = "signal"]
    /\ UNCHANGED <<incept, listenAddress, ipc, iop, iarg, loopIndex, jis, held,
                   jipJobinfos, jipWait, sent, logged, iresult>>
    /\ UNCHANGED <<trackerVars, schedVars, probVars, readVars, procVars, infoVars>>

\* inception 65: ji.Done()
requestJobInfosDone(k) ==
    /\ rpc[k] = "signal"
    /\ jipWait' = jipWait - 1
    /\ rpc' = [rpc EXCEPT ![k] = "finished"]
    /\ UNCHANGED <<incept, listenAddress, ipc, iop, iarg, loopIndex, jis, held,
                   jipJobinfos, jipMutex, sent, logged, iresult>>
    /\ UNCHANGED <<trackerVars, schedVars, probVars, readVars, procVars, infoVars>>

\* inception 82-84: jip.Wait() returns
GetJobInfosByFilterReturn ==
    /\ ipc = "wait"
    /\ jipWait = 0
    /\ iresult' = jipJobinfos
    /\ ipc' = "done"
    /\ UNCHANGED <<incept, listenAddress, iop, iarg, loopIndex, rpc, jis, held,
                   jipJobinfos, jipMutex, jipWait, sent, logged>>
    /\ UNCHANGED <<trackerVars, schedVars, probVars, readVars, procVars, infoVars>>

\* inception 112-130, with getJobFromCluster 87-110
GetJobInfo(jobid, answered) ==
    /\ ipc = "idle"
    /\ iop' = "GetJobInfo"
    /\ iarg' = jobid
    /\ LET route == GetJobInfoRoute(jobid)
           requests == IF route.cluster = "none" THEN {}
                       ELSE getJobFromCluster(incept, route.cluster, route.job)
       IN  /\ sent' = requests
           /\ logged' = IF route.cluster = "none"
                        THEN logged \cup {"Wrong job identifier"}
                        ELSE logged
           /\ iresult' = IF requests # {} /\ answered THEN "job" ELSE NoJob
    /\ ipc' = "done"
    /\ UNCHANGED <<incept, listenAddress, loopIndex, rpc, jis, held, jipJobinfos,
                   jipMutex, jipWait>>
    /\ UNCHANGED <<trackerVars, schedVars, probVars, readVars, procVars, infoVars>>

\* inception 222-224
RunJob ==
    /\ ipc = "idle"
    /\ iop' = "RunJob"
    /\ iresult' = [jobid |-> <<>>, err |-> "nil"]
    /\ ipc' = "done"
    /\ UNCHANGED <<incept, listenAddress, iarg, loopIndex, rpc, jis, held, jipJobinfos,
                   jipMutex, jipWait, sent, logged>>
    /\ UNCHANGED <<trackerVars, schedVars, probVars, readVars, procVars, infoVars>>

\* inception 226-228
JobOperation(operation, jobid) ==
    /\ ipc = "idle"
    /\ iop' = operation
    /\ iarg' = jobid
    /\ iresult' = [jobid |-> <<>>, err |-> "nil"]
    /\ ipc' = "done"
    /\ UNCHANGED <<incept, listenAddress, loopIndex, rpc, jis, held, jipJobinfos,
                   jipMutex, jipWait, sent, logged>>
    /\ UNCHANGED <<trackerVars, schedVars, probVars, readVars, procVars, infoVars>>

\* inception 132-133, 159-160, 192-193: the accumulator is made
GetAllBegin(op, names) ==
    /\ ipc = "idle"
    /\ iop' = op
    /\ rarg' = names
    /\ allitems' = Slice(<<>>)
    /\ ipc' = "loop"
    /\ UNCHANGED <<incept, listenAddress, iarg, loopIndex, rpc, jis, held, jipJobinfos,
                   jipMutex, jipWait, sent, logged, iresult, outstanding, dead>>
    /\ UNCHANGED <<trackerVars, schedVars, probVars, procVars, infoVars>>

GetAllMachines(machines) == GetAllBegin("GetAllMachines", machines)

GetAllQueues(queues) == GetAllBegin("GetAllQueues", queues)

GetAllCategories == GetAllBegin("GetAllCategories", NilSlice)

\* inception 134-145, 162-173, 194-205: the next cluster of the loop; the
\* loop body runs to its end before the next cluster is looked at, so no
\* request is outstanding here. A cluster at the own address is skipped, an
\* address that cannot be resolved ends in log.Panicln, otherwise the
\* request is sent.
GetAllNext ==
    /\ ipc = "loop"
    /\ outstanding = {}
    /\ loopIndex < Len(incept.config)
    /\ LET k == loopIndex + 1
           c == incept.config[k]
       IN  IF IsOwnAddress(incept, c)
           THEN /\ loopIndex' = k
                /\ logged' = IF iop = "GetAllCategories"
                             THEN logged \cup {"Skipping own address"}
                             ELSE logged
                /\ UNCHANGED <<ipc, sent, outstanding>>
           ELSE \E resolved \in GetClusterAddress(incept, c) :
                    IF resolved.err
                    THEN /\ ipc' = "panicked"
                         /\ logged' = logged \cup {"panic"}
                         /\ UNCHANGED <<loopIndex, sent, outstanding>>
                    ELSE /\ sent' = sent \cup {[peer |-> k, op |-> ReadRequestOp(iop),
                                                 to |-> resolved.address, jobid |-> <<>>]}
                         /\ outstanding' = {k}
                         /\ loopIndex' = k
                         /\ UNCHANGED <<ipc, logged>>
    /\ UNCHANGED <<incept, listenAddress, iop, iarg, rpc, jis, held, jipJobinfos,
                   jipMutex, jipWait, iresult, rarg, allitems, dead>>
    /\ UNCHANGED <<trackerVars, schedVars, probVars, procVars, infoVars>>

\* inception 145-150, 173-178, 205: the request returns; a result is
\* appended, an error is logged
GetAllAnswer(k) ==
    /\ ipc = "loop"
    /\ k \in outstanding
    /\ \E answer \in NameAnswers :
        /\ jis' = [jis EXCEPT ![k] = answer]
        /\ allitems' = IF answer.nil THEN allitems ELSE GoAppend(allitems, answer)
        /\ logged' = IF answer.nil /\ iop # "GetAllCategories"
                     THEN logged \cup {"Error while requesting"}
                     ELSE logged
    /\ outstanding' = outstanding \ {k}
    /\ UNCHANGED <<incept, listenAddress, ipc, iop, iarg, loopIndex, rpc, held,
                   jipJobinfos, jipMutex, jipWait, sent, iresult, rarg, dead>>
    /\ UNCHANGED <<trackerVars, schedVars, probVars, procVars, infoVars>>

\* inception 154, 182, 207
GetAllReturn ==
    /\ ipc = "loop"
    /\ outstanding = {}
    /\ loopIndex = Len(incept.config)
    /\ iresult' = [value |-> allitems, err |-> "nil"]
    /\ ipc' = "done"
    /\ UNCHANGED <<incept, listenAddress, iop, iarg, loopIndex, rpc, jis, held,
                   jipJobinfos, jipMutex, jipWait, sent, logged, rarg, allitems,
                   outstanding, dead>>
    /\ UNCHANGED <<trackerVars, schedVars, probVars, procVars, infoVars>>

\* inception 210-220: the three identity calls
Identity(op, value) ==
    /\ ipc = "idle"
    /\ iop' = op
    /\ iresult' = value
    /\ ipc' = "done"
    /\ UNCHANGED <<incept, listenAddress, iarg, loopIndex, rpc, jis, held, jipJobinfos,
                   jipMutex, jipWait, sent, logged>>
    /\ UNCHANGED <<trackerVars, schedVars, probVars, readVars, procVars, infoVars>>

CallDRMSVersion == Identity("DRMSVersion", DRMSVersion(incept))

CallDRMSName == Identity("DRMSName", DRMSName(incept))

CallDRMSLoad == Identity("DRMSLoad", DRMSLoad(incept))

\* GetJobInfosByFilter and its tasks
FilterNext ==
    \/ GetJobInfosByFilter
    \/ FanOutNext
    \/ FanOutEnd
    \/ \E k \in Peers : requestJobInfos(k)
    \/ \E k \in Peers : requestJobInfosLock(k)
    \/ \E k \in Peers : requestJobInfosRead(k)
    \/ \E k \in Peers : requestJobInfosAppend(k)
    \/ \E k \in Peers : requestJobInfosUnlock(k)
    \/ \E k \in Peers : requestJobInfosDone(k)
    \/ GetJobInfosByFilterReturn

InceptNext ==
    \/ \E machines \in NameLists : GetAllMachines(machines)
    \/ \E queues \in NameLists : GetAllQueues(queues)
    \/ GetAllCategories
    \/ GetAllNext
    \/ \E k \in Peers : GetAllAnswer(k)
    \/ GetAllReturn
    \/ CallDRMSVersion
    \/ CallDRMSName
    \/ CallDRMSLoad
    \/ GetJobInfosByFilter
    \/ FanOutNext
    \/ FanOutEnd
    \/ \E k \in Peers : requestJobInfos(k)
    \/ \E k \in Peers : requestJobInfosLock(k)
    \/ \E k \in Peers : requestJobInfosRead(k)
    \/ \E k \in Peers : requestJobInfosAppend(k)
    \/ \E k \in Peers : requestJobInfosUnlock(k)
    \/ \E k \in Peers : requestJobInfosDone(k)
    \/ GetJobInfosByFilterReturn
    \/ \E jobid \in JobIds, answered \in BOOLEAN : GetJobInfo(jobid, answered)
    \/ RunJob
    \/ \E operation \in Operations, jobid \in {<<"7">>, <<"7", "@", "a">>} :
            JobOperation(operation, jobid)

----------------------------------------------------------------------------
(* A job's process: stateByPid, KillPid, SuspendPid, ResumePid            *)
(* (os.go:101-133), with the process as the operating system runs it.     *)

\* the run states of gosigar's ProcState.State
RunStates == {"RunStateSleep", "RunStateRun", "RunStateStop", "RunStateZombie",
              "RunStateIdle", "RunStateUnknown"}

\* a process that is neither stopped nor dead
Alive == {"RunStateSleep", "RunStateRun", "RunStateIdle"}

\* os.go:114-120: the switch on state.State
JobStateOfExited(run) ==
    CASE run = "RunStateRun" -> "Running"
      [] run = "RunStateStop" -> "Suspended"
      [] run = "RunStateZombie" -> "Done"
      [] OTHER -> "Undetermined"
JobStateOf(run) ==
    CASE run = "RunStateRun" -> "Running"
      [] run = "RunStateStop" -> "Suspended"
      [] OTHER -> "Undetermined"

\* os.go:103: err := state.Get(pid): not implemented on this platform, no
\* such process, or nil
ProcStateGet(os, run) ==
    IF os = "unsupported" THEN "ErrNotImplemented"
    ELSE IF run = "gone" THEN "ESRCH"
    ELSE "nil"

\* os.go:101-121
stateByPid(os, run) ==
    IF ProcStateGet(os, run) # "nil"
    THEN [get |-> ProcStateGet(os, run), state |-> "Undetermined",
          err |-> ProcStateGet(os, run)]
    ELSE [get |-> "nil", state |-> JobStateOf(run), err |-> "nil"]

\* syscall.Kill(pid, sig): ESRCH when there is no such process
Kill(run, sig) == [sig |-> sig, err |-> IF run = "gone" THEN "ESRCH" ELSE "nil"]

ProcInit ==
    /\ platform \in {"supported", "unsupported"}
    /\ pstate = "RunStateRun"
    /\ tstp \in {"default", "ignored"}
    /\ stoppedFrom = "RunStateRun"
    /\ signalled = [sig |-> "none", err |-> "nil"]
    /\ observed = [get |-> "none", state |-> "none", err |-> "none"]

\* no job process is looked at
ProcQuiet ==
    /\ platform = "supported"
    /\ pstate = "gone"
    /\ tstp = "default"
    /\ stoppedFrom = "RunStateRun"
    /\ signalled = [sig |-> "none", err |-> "nil"]
    /\ observed = [get |-> "none", state |-> "none", err |-> "none"]

\* os.go:101-121: the state is read, nothing is changed
stateByPidCall ==
    /\ observed' = stateByPid(platform, pstate)
    /\ UNCHANGED <<platform, pstate, tstp, stoppedFrom, signalled>>
    /\ UNCHANGED <<trackerVars, schedVars, probVars, inceptVars, infoVars>>

\* os.go:127-129: SIGTSTP stops a process that neither ignores nor
\* handles it
SuspendPid ==
    /\ signalled' = Kill(pstate, "SIGTSTP")
    /\ IF pstate \in Alive /\ tstp = "default"
       THEN pstate' = "RunStateStop" /\ stoppedFrom' = pstate
       ELSE UNCHANGED <<pstate, stoppedFrom>>
    /\ UNCHANGED <<platform, tstp, observed>>
    /\ UNCHANGED <<trackerVars, schedVars, probVars, inceptVars, infoVars>>

\* os.go:131-133: SIGCONT lets a stopped process go on where it was
ResumePid ==
    /\ signalled' = Kill(pstate, "SIGCONT")
    /\ pstate' = IF pstate = "RunStateStop" THEN stoppedFrom ELSE pstate
    /\ UNCHANGED <<platform, tstp, stoppedFrom, observed>>
    /\ UNCHANGED <<trackerVars, schedVars, probVars, inceptVars, infoVars>>

\* os.go:123-125: SIGKILL ends every process that is not ended yet
KillPid ==
    /\ signalled' = Kill(pstate, "SIGKILL")
    /\ pstate' = IF pstate \in Alive \cup {"RunStateStop"} THEN "RunStateZombie"
                 ELSE pstate
    /\ UNCHANGED <<platform, tstp, stoppedFrom, observed>>
    /\ UNCHANGED <<trackerVars, schedVars, probVars, inceptVars, infoVars>>

\* the operating system: the process blocks, wakes up, exits, is reaped
ProcessRuns ==
    /\ \/ pstate = "RunStateRun" /\ pstate' \in {"RunStateSleep", "RunStateIdle", "RunStateZombie"}
       \/ pstate \in {"RunStateSleep", "RunStateIdle"} /\ pstate' = "RunStateRun"
       \/ pstate = "RunStateZombie" /\ pstate' = "gone"
    /\ UNCHANGED <<platform, tstp, stoppedFrom, signalled, observed>>
    /\ UNCHANGED <<trackerVars, schedVars, probVars, inceptVars, infoVars>>

ProcNext ==
    \/ stateByPidCall
    \/ SuspendPid
    \/ ResumePid
    \/ KillPid
    \/ ProcessRuns

----------------------------------------------------------------------------
(* goJobState and goJobInfo of the DRMAA2 binding *)

\* the values of the C type drmaa2_jstate
CJobStates ==
    {"DRMAA2_UNDETERMINED", "DRMAA2_QUEUED", "DRMAA2_QUEUED_HELD", "DRMAA2_RUNNING",
     "DRMAA2_SUSPENDED", "DRMAA2_REQUEUED", "DRMAA2_REQUEUED_HELD", "DRMAA2_DONE",
     "DRMAA2_FAILED"}

\* binding 582: Unset is the zero value of JobState
Unset == "Unset"

\* binding 584-601
RealJobStates ==
    {"Undetermined", "Queued", "QueuedHeld", "Running", "Suspended", "Requeued",
     "RequeuedHeld", "Done", "Failed"}

\* binding 632-641
jobStateMap ==
    [s \in CJobStates \ {"DRMAA2_REQUEUED"} |->
        CASE s = "DRMAA2_UNDETERMINED" -> "Undetermined"
          [] s = "DRMAA2_QUEUED" -> "Queued"
          [] s = "DRMAA2_QUEUED_HELD" -> "QueuedHeld"
          [] s = "DRMAA2_RUNNING" -> "Running"
          [] s = "DRMAA2_SUSPENDED" -> "Suspended"
          [] s = "DRMAA2_REQUEUED_HELD" -> "RequeuedHeld"
          [] s = "DRMAA2_DONE" -> "Done"
          [] OTHER -> "Failed"]

\* binding 1155-1157: a map gives the zero value for a key it does not hold
goJobState(state) ==
    IF state \in DOMAIN jobStateMap THEN jobStateMap[state] ELSE Unset

\* C.GoString of a char pointer that is not nil
CStrings == {"nil", "1", "2"}

CJobInfos ==
    {[nil |-> TRUE, jobState |-> "DRMAA2_UNDETERMINED", jobId |-> "nil",
      exitStatus |-> 0, slots |-> 0]}
    \cup [nil : {FALSE}, jobState : CJobStates, jobId : CStrings,
          exitStatus : {0, 1}, slots : {1, 2}]

\* the zero value of JobInfo
ZeroJobInfo == [Id |-> "", ExitStatus |-> 0, Slots |-> 0, State |-> Unset]

\* binding 1189-1234, for the fields modelled
goJobInfo(c) ==
    IF c.nil THEN ZeroJobInfo
    ELSE [Id |-> IF c.jobId # "nil" THEN c.jobId ELSE "",
          ExitStatus |-> c.exitStatus,
          Slots |-> c.slots,
          State |-> goJobState(c.jobState)]

InfoInit ==
    /\ cji \in CJobInfos
    /\ jinfo = [converted |-> FALSE, info |-> ZeroJobInfo]

\* no job info is converted
InfoQuiet ==
    /\ cji = [nil |-> TRUE, jobState |-> "DRMAA2_UNDETERMINED", jobId |-> "nil",
              exitStatus |-> 0, slots |-> 0]
    /\ jinfo = [converted |-> TRUE, info |-> ZeroJobInfo]

\* binding 1313: jinfo := goJobInfo(cji)
goJobInfoCall ==
    /\ ~jinfo.converted
    /\ jinfo' = [converted |-> TRUE, info |-> goJobInfo(cji)]
    /\ UNCHANGED cji
    /\ UNCHANGED <<trackerVars, schedVars, probVars, inceptVars, procVars>>

InfoNext == goJobInfoCall

----------------------------------------------------------------------------
(* Specifications *)

InitTracker == TrackerInit /\ SchedQuiet /\ ProbQuiet /\ InceptQuiet /\ ProcQuiet /\ InfoQuiet

SpecTracker == InitTracker /\ [][TrackerNext]_vars

TrackerQuiet ==
    /\ osEnv = InitEnv
    /\ spc = [c \in Calls |-> "done"]
    /\ tmpl = [c \in Calls |-> JobTemplate("", EmptyMap, "", "", "")]
    /\ mtx = [c \in Calls |-> FALSE]
    /\ env = [c \in Calls |-> EmptyMap]
    /\ envBefore = [c \in Calls |-> EmptyMap]
    /\ sret = [c \in Calls |-> NoReturn]
    /\ procs = EmptyMap
    /\ trackers = <<>>
    /\ redirects = {}
    /\ copying = {}
    /\ crashed = FALSE

InitSched == SchedInit /\ TrackerQuiet /\ ProbQuiet /\ InceptQuiet /\ ProcQuiet /\ InfoQuiet

SpecSched == InitSched /\ [][SchedNext]_vars

InitIncept == InceptInit /\ TrackerQuiet /\ SchedQuiet /\ ProbQuiet /\ ProcQuiet /\ InfoQuiet

InitProb == ProbInit /\ TrackerQuiet /\ SchedQuiet /\ InceptQuiet /\ ProcQuiet /\ InfoQuiet

SpecProb == InitProb /\ [][ProbNext]_vars

SpecIncept == InitIncept /\ [][InceptNext]_vars

InitProc ==
    ProcInit /\ TrackerQuiet /\ SchedQuiet /\ ProbQuiet /\ InceptQuiet /\ InfoQuiet

SpecProc == InitProc /\ [][ProcNext]_vars

InitInfo ==
    InfoInit /\ TrackerQuiet /\ SchedQuiet /\ ProbQuiet /\ InceptQuiet /\ ProcQuiet

SpecInfo == InitInfo /\ [][InfoNext]_vars

InitFilter == FilterInit /\ TrackerQuiet /\ SchedQuiet /\ ProbQuiet /\ ProcQuiet /\ InfoQuiet

\* GetJobInfosByFilter with clusters that never answer. Every task that can
\* take a step eventually takes one: the Go scheduler runs every runnable
\* goroutine, and a request ends with an answer or with its timeout.
SpecFilterFair == InitFilter /\ [][FilterNext]_vars /\ WF_vars(FilterNext)

----------------------------------------------------------------------------
(* Properties of StartProcess *)

\* the overlay/restore window of os.go:56-72: from currentEnv() to restoreEnv()
InWindow(c) == spc[c] \in {"save", "overlay", "start", "restore"}

\* C1: the overlay/restore windows of concurrent StartProcess calls never
\* overlap: at most one call is inside its window at any time.
C1_WindowsNeverOverlap == Cardinality({c \in Calls : InWindow(c)}) <= 1

EmptyCommandCall(c) == tmpl[c].RemoteCommand = ""

\* C5: a StartProcess call whose template has an empty RemoteCommand returns
\* InvalidArgument, has started no OS process, no redirection task and no
\* supervisory task, and no step of that call changes the environment.
C5_EmptyCommandRejected ==
    /\ [](\A c \in Calls :
            EmptyCommandCall(c) =>
                /\ c \notin DOMAIN procs
                /\ \A n \in DOMAIN trackers : trackers[n].cmd # c
                /\ \A r \in redirects : r[1] # c
                /\ spc[c] \in {"idle", "done"}
                /\ spc[c] = "done" => sret[c] = [pid |-> 0, err |-> "InvalidArgument"])
    /\ [][\A c \in Calls :
            (EmptyCommandCall(c) /\ spc'[c] # spc[c]) => osEnv' = osEnv]_vars

\* a call with an empty command, an environment overlay and redirection
\* paths has returned
C5_Witness ==
    \E c \in Calls :
        /\ spc[c] = "done"
        /\ EmptyCommandCall(c)
        /\ tmpl[c].JobEnvironment # EmptyMap
        /\ tmpl[c].InputPath # ""

\* C6: after a StartProcess call returned successfully (no other call having
\* begun), the process environment is the one the call found: the same keys
\* with the same values.
C6_EnvironmentRestored ==
    \A c \in Calls :
        ( /\ spc[c] = "done"
          /\ sret[c].err = "nil"
          /\ \A d \in Calls \ {c} : spc[d] = "idle" )
        => osEnv = envBefore[c]

\* C28: a StartProcess call whose cmd.Start() failed (no other call having
\* started) returns the error with pid 0, has released its lock and leaves
\* the process environment as it was before the call.
C28_FailedStartRestoresEnvironment ==
    \A c \in Calls :
        (/\ spc[c] = "done"
         /\ sret[c].err = "StartError"
         /\ \A d \in Calls \ {c} : spc[d] = "idle") =>
            /\ sret[c].pid = 0
            /\ ~mtx[c]
            /\ osEnv = envBefore[c]

\* C30: an InputPath that cannot be opened never ends the broker process
\* with a panic of the input redirection task.
C30_UnopenableInputReported == ~crashed

TrackersOf(c) == {n \in DOMAIN trackers : trackers[n].cmd = c}

\* C20: a StartProcess call that returned a pid without error has started
\* exactly one TrackProcess task, for its process, job id and event channel;
\* a call that returned an error has started none.
C20_OneSupervisorPerProcess ==
    \A c \in Calls :
        spc[c] = "done" =>
            IF sret[c].err = "nil"
            THEN /\ Cardinality(TrackersOf(c)) = 1
                 /\ c \in DOMAIN procs
                 /\ \A n \in TrackersOf(c) :
                        /\ trackers[n].jobid = JobIdOf(c)
                        /\ trackers[n].channel = "finishedJobChannel"
            ELSE TrackersOf(c) = {}

\* one call returned a pid, another failed in cmd.Start()
C20_Witness ==
    \E c, d \in Calls :
        /\ spc[c] = "done" /\ sret[c].err = "nil" /\ sret[c].pid > 0
        /\ spc[d] = "done" /\ sret[d].err = "StartError"

----------------------------------------------------------------------------
(* Properties of the schedulers *)

AllDecoded == \A i \in Indexes : resp[i].kind = "ok"

\* C2: when every cluster's load was fetched and decoded, the cluster
\* LoadBasedSched.SelectCluster returns is one whose reported load is the
\* smallest.
C2_LowestReportedLoadSelected ==
    (schedKind = "load" /\ schedPc = "done" /\ conf # <<>> /\ AllDecoded) =>
        \E i \in Indexes :
            /\ selected = conf[i]
            /\ \A j \in Indexes : resp[i].load <= resp[j].load

\* C7: once all fetches are over, the load vector holds 1.0 for every
\* cluster whose fetch failed.
C7_FailedFetchIsFullyLoaded ==
    (schedKind \in {"prob", "load"} /\ schedPc \in {"wait", "done"} /\ lvWait = 0) =>
        \A i \in Indexes : resp[i].kind = "fetchError" => lvLoad[i] = LoadScale

\* C12: every write of a fetch task to a shared accumulator happens while
\* the task holds the accumulator's mutex: a getClusterLoad task that
\* assigns lv.load[index] holds loadValues.Mutex, a requestJobInfos task
\* that assigns ji.jobinfos holds jiProtected.Mutex.
C12_WritesUnderMutex ==
    [][/\ \A i \in Indexes :
            (fpc[i] = "spawned" /\ fpc'[i] = "fetched" /\ StoresLoad(resp[i])) =>
                lvMutex = i
       /\ \A k \in Peers :
            (rpc[k] = "write" /\ rpc'[k] = "unlock") => jipMutex = k]_vars

Finished == {i \in Indexes : fpc[i] = "finished"}

\* C25: getAllLoadValues starts one task per cluster and returns a vector
\* with one entry per cluster only after all tasks have finished; the
\* counter is lowered once per finished task, on every path, and never
\* is negative, so the wait ends when every fetch has returned.
C25_LoadBarrierBalanced ==
    schedKind \in {"prob", "load"} =>
        /\ lvWait >= 0
        /\ schedPc \in {"dispatch", "wait", "done"} =>
                /\ lvWait = Len(conf) - Cardinality(Finished)
                /\ DOMAIN lvLoad = DOMAIN conf
        /\ schedPc \in {"wait", "done"} => dispatched = Len(conf)
        /\ schedPc = "done" => Finished = Indexes

\* the call returned after a failed fetch, a failed decoding and a success
C25_Witness ==
    /\ schedKind = "load"
    /\ schedPc = "done"
    /\ \E i, j, k \in Indexes :
        /\ resp[i].kind = "fetchError"
        /\ resp[j].kind = "decodeError"
        /\ resp[k].kind = "ok"

\* C15: whichever scheduler is in use, when at least one cluster with a
\* non-empty name is configured SelectCluster returns a non-empty name,
\* for every outcome of the fetches and every draw.
C15_NonEmptyNameSelected ==
    (schedPc = "done" /\ \E i \in Indexes : conf[i] # "") => selected # ""

----------------------------------------------------------------------------
(* Properties of probabilisticSelection *)

NothingSelectable(loads) == \A i \in DOMAIN loads : loads[i] >= LoadScale

ByProb == pPc = "done" /\ pOut.by = "prob"

\* C13: for an empty load vector, or one whose loads are all at least 1.0,
\* probabilisticSelection returns -1 and ProbSched.SelectCluster returns
\* "default", without a panic.
C13_FallbackToDefault ==
    (ByProb /\ NothingSelectable(pLoads)) =>
        /\ ~pOut.panic
        /\ pOut.selection = NoSelection
        /\ pOut.name = "default"

C13_Witness ==
    /\ ByProb
    /\ Len(pLoads) >= 2
    /\ NothingSelectable(pLoads)
    /\ \E i, j \in DOMAIN pLoads : pLoads[i] = LoadScale /\ pLoads[j] > LoadScale
    /\ pOut.name = "default"

\* every number rand.Int63n(n) can return
AllDraws(L) == Int63n(L[Len(L)] - 1)

\* the number of draws of rand.Int63n for which the call returns index k
DrawCount(loads, k) ==
    Cardinality({o \in probabilisticDraw(likelyhood(loads), AllDraws(likelyhood(loads))) :
                    o.selection = k})

UniformBelowOne(loads) ==
    /\ loads # <<>>
    /\ \A i \in DOMAIN loads : loads[i] = loads[1] /\ loads[i] < LoadScale

\* C14: when all clusters have the same load below 1, the same number of
\* draws selects every index.
C14_UniformLoadsEquallyLikely ==
    (ByProb /\ UniformBelowOne(pLoads)) =>
        \A j, k \in 0..(Len(pLoads) - 1) :
            DrawCount(pLoads, j) = DrawCount(pLoads, k)

----------------------------------------------------------------------------
(* Properties of the Inception aggregator *)

Count(x, seq) == Cardinality({n \in DOMAIN seq : seq[n] = x})

RECURSIVE CountInAnswers(_, _)
CountInAnswers(x, peers) ==
    IF peers = {} THEN 0
    ELSE LET k == CHOOSE q \in peers : TRUE
         IN  Count(x, jis[k].elems) + CountInAnswers(x, peers \ {k})

Succeeded == {k \in Peers : ~jis[k].nil}

JobInfosReturned == ipc = "done" /\ iop = "GetJobInfosByFilter"

\* C3: GetJobInfosByFilter has asked every peer and returns a non-nil list
\* holding every job info exactly as often as the answers of the peers whose
\* request succeeded hold it together; failed peers add nothing.
C3_MergedJobInfos ==
    JobInfosReturned =>
        /\ ~iresult.nil
        /\ \A k \in Peers : rpc[k] = "finished"
        /\ \A x \in {"j1", "j2"} :
                Count(x, iresult.elems) = CountInAnswers(x, Succeeded)

\* one peer failed, another answered two job infos, and the call returned
C3_Witness ==
    /\ JobInfosReturned
    /\ \E k1, k2 \in Peers :
        /\ jis[k1].nil
        /\ ~jis[k2].nil /\ Len(jis[k2].elems) = 2

\* C4: no read-aggregation request goes to a configured cluster whose
\* address is the address the aggregator itself listens on.
C4_NoRequestToOwnAddress ==
    \A r \in sent :
        r.op \in {"GetJobs", "GetMachines", "GetQueues", "GetJobCategories"} =>
            incept.config[r.peer].Address # listenAddress

\* C8: a RunJob or JobOperation call that returned without error has sent
\* its request to exactly one cluster, and RunJob returned a job identifier.
C8_TargetedOperationForwarded ==
    (ipc = "done" /\ iop \in {"RunJob"} \cup Operations) =>
        (iresult.err = "nil" =>
            /\ Cardinality(sent) = 1
            /\ iop = "RunJob" => iresult.jobid # <<>>)

Skipped == {k \in 1..loopIndex : rpc[k] = "none"}

FinishedTasks == {k \in Peers : rpc[k] = "finished"}

\* C24: in GetJobInfosByFilter the wait-group counter is never negative,
\* it is the number of configured clusters less one for every cluster
\* skipped and one for every task finished, and the call returns only
\* when the loop is over and every task started has finished.
C24_WaitGroupBalanced ==
    iop = "GetJobInfosByFilter" =>
        /\ jipWait >= 0
        /\ jipWait = Len(incept.config) - Cardinality(Skipped)
                        - Cardinality(FinishedTasks)
        /\ ipc = "done" =>
                /\ loopIndex = Len(incept.config)
                /\ \A k \in Peers : rpc[k] \in {"none", "finished"}

\* the call returned, one task having got nil and another an answer
C24_Witness ==
    /\ JobInfosReturned
    /\ Len(incept.config) = NumPeers
    /\ jipWait = 0
    /\ FinishedTasks = Peers
    /\ \E k1, k2 \in Peers : jis[k1].nil /\ jis[k2].elems # <<>>

ReadOps == {"GetAllMachines", "GetAllQueues", "GetAllCategories"}

ReadReturned == ipc = "done" /\ iop \in ReadOps

\* the answers of clusters 1..k one after the other, failed requests and
\* clusters not asked adding nothing
RECURSIVE ConcatAnswers(_)
ConcatAnswers(k) ==
    IF k = 0 THEN <<>> ELSE ConcatAnswers(k - 1) \o jis[k].elems

\* C16: GetAllMachines, GetAllQueues and GetAllCategories never panic over
\* one cluster's failure (request failed, address not resolved): they
\* return the concatenated results of the other clusters and a nil error.
C16_PeerFailureNotEscalated ==
    /\ ipc # "panicked"
    /\ ReadReturned =>
            /\ iresult.err = "nil"
            /\ iresult.value.elems = ConcatAnswers(Len(incept.config))

\* C17: GetAllQueues with a nil name list returns all queues; with a
\* non-nil list it returns only queues named in the list, in a non-nil
\* result with a nil error.
C17_QueuesFilteredByName ==
    (ipc = "done" /\ iop = "GetAllQueues") =>
        /\ iresult.err = "nil"
        /\ ~iresult.value.nil
        /\ IF rarg.nil
           THEN iresult.value.elems = ConcatAnswers(Len(incept.config))
           ELSE Range(iresult.value.elems) \subseteq Range(rarg.elems)

IdentityOps == {"DRMSVersion", "DRMSName", "DRMSLoad"}

\* C18: DRMSLoad, DRMSName and DRMSVersion return the same non-zero load,
\* non-empty name and non-empty version whatever the configuration is, and
\* send no request.
C18_FixedIdentity ==
    (ipc = "done" /\ iop \in IdentityOps) =>
        /\ sent = {}
        /\ iop = "DRMSLoad" =>
                iresult = DRMSLoad(NewInception(<<>>)) /\ iresult # 0
        /\ iop = "DRMSName" =>
                iresult = DRMSName(NewInception(<<>>)) /\ iresult # <<>>
        /\ iop = "DRMSVersion" =>
                iresult = DRMSVersion(NewInception(<<>>)) /\ iresult # <<>>

C18_Witness ==
    /\ ipc = "done"
    /\ iop = "DRMSLoad"
    /\ Len(incept.config) = NumPeers
    /\ iresult = LoadScale \div 2

\* C19: the requests of GetAllMachines, GetAllQueues and GetAllCategories
\* are issued concurrently: while a request is outstanding and a cluster
\* is left in the loop, the loop can go on to that cluster.
C19_RequestsIssuedConcurrently ==
    (ipc = "loop" /\ outstanding # {} /\ loopIndex < Len(incept.config)) =>
        ENABLED GetAllNext

NumAt(id) == Cardinality({n \in DOMAIN id : id[n] = "@"})

JobInfoReturned == ipc = "done" /\ iop = "GetJobInfo"

Named(clustername) == {k \in Peers : incept.config[k].Name = clustername}

\* what GetJobInfo has to have sent for the job of that cluster
RoutedTo(clustername, job) ==
    /\ Cardinality(sent) <= 1
    /\ \A r \in sent :
        /\ r.op = "GetJob"
        /\ r.peer \in Named(clustername)
        /\ r.jobid = job
    /\ Named(clustername) # {} => sent # {}

\* C9: GetJobInfo asks the cluster named after the '@' for the job named
\* before it, asks the cluster named "default" for an identifier without
\* '@', and never asks more than one cluster.
C9_JobInfoRouting ==
    (JobInfoReturned /\ NumAt(iarg) <= 1) =>
        IF NumAt(iarg) = 1
        THEN LET p == CHOOSE n \in DOMAIN iarg : iarg[n] = "@"
             IN  RoutedTo(SubSeq(iarg, p + 1, Len(iarg)), SubSeq(iarg, 1, p - 1))
        ELSE RoutedTo(DefaultName, iarg)

\* "7@a" was asked for and a request was sent
C9_Witness ==
    /\ JobInfoReturned
    /\ iarg = <<"7", "@", "a">>
    /\ sent # {}

Minimum(loads) == CHOOSE v \in Range(loads) : \A w \in Range(loads) : v <= w

\* C26: for a non-empty load vector minLoad returns the lowest index whose
\* value is the minimum of the vector.
C26_MinLoadFirstMinimum ==
    (pPc = "done" /\ pOut.by = "load" /\ pLoads # <<>>) =>
        /\ pOut.selection + 1 \in DOMAIN pLoads
        /\ pLoads[pOut.selection + 1] = Minimum(pLoads)
        /\ \A j \in 1..pOut.selection : pLoads[j] # Minimum(pLoads)

\* the minimum occurs twice, and not at the first position
C26_Witness ==
    /\ pPc = "done"
    /\ pOut.by = "load"
    /\ pOut.selection > 0
    /\ \E j \in DOMAIN pLoads :
            j > pOut.selection + 1 /\ pLoads[j] = Minimum(pLoads)

InUnitInterval(loads) == \A i \in DOMAIN loads : loads[i] >= 0 /\ loads[i] <= LoadScale

TotalWeight(loads) == CumulativeWeight(loads, Len(loads))

\* C27: for loads in [0,1] with a total weight above 0 and every draw,
\* the index returned is the first whose accumulated weight exceeds the
\* draw, and the load of its cluster is below 1.
C27_FirstIndexAboveDraw ==
    (ByProb /\ InUnitInterval(pLoads) /\ TotalWeight(pLoads) > 0 /\ ~pOut.panic) =>
        /\ pOut.selection + 1 \in DOMAIN pLoads
        /\ CumulativeWeight(pLoads, pOut.selection + 1) > pOut.draw
        /\ \A j \in 1..pOut.selection : CumulativeWeight(pLoads, j) <= pOut.draw
        /\ pLoads[pOut.selection + 1] < LoadScale

\* a cluster with load 1.0 stands before the one selected
C27_Witness ==
    /\ ByProb
    /\ InUnitInterval(pLoads)
    /\ ~pOut.panic
    /\ pOut.selection >= 2
    /\ pLoads[pOut.selection] = LoadScale
    /\ pOut.draw = CumulativeWeight(pLoads, pOut.selection)

\* C29: for a total weight of at least 1 the draw is taken from a non-empty
\* range: there is no panic and an index of the vector is returned.
C29_PositiveWeightNeverPanics ==
    (ByProb /\ pLoads # <<>> /\ TotalWeight(pLoads) >= 1) =>
        /\ ~pOut.panic
        /\ pOut.selection \in 0..(Len(pLoads) - 1)

----------------------------------------------------------------------------
(* Properties of a job's process *)

\* C21: stateByPid returns Running, Suspended or Undetermined only, and
\* Undetermined with the error whenever the inspection of the process
\* table gave an error.
C21_StateByPidRange ==
    observed.state # "none" =>
        /\ observed.state \in {"Running", "Suspended", "Undetermined"}
        /\ observed.get # "nil" =>
                observed.state = "Undetermined" /\ observed.err = observed.get
        /\ observed.get = "nil" => observed.err = "nil"

\* the process was killed and is looked at where the table can be read
C21_Witness ==
    /\ platform = "supported"
    /\ pstate = "RunStateZombie"
    /\ signalled.sig = "SIGKILL"
    /\ observed = [get |-> "nil", state |-> "Undetermined", err |-> "nil"]

\* C22: suspending a Running job succeeds with SIGTSTP and makes it
\* Suspended, resuming a job suspended from Running succeeds with SIGCONT
\* and makes it Running again, and reading the state changes nothing.
C22_SuspendThenResume ==
    [][/\ (SuspendPid /\ JobStateOf(pstate) = "Running") =>
            /\ signalled' = [sig |-> "SIGTSTP", err |-> "nil"]
            /\ JobStateOf(pstate') = "Suspended"
       /\ (ResumePid /\ JobStateOf(pstate) = "Suspended"
                     /\ JobStateOf(stoppedFrom) = "Running") =>
            /\ signalled' = [sig |-> "SIGCONT", err |-> "nil"]
            /\ JobStateOf(pstate') = "Running"
       /\ stateByPidCall => pstate' = pstate]_vars

----------------------------------------------------------------------------
(* Properties of the job info conversion *)

\* C23: for every state the DRM reports, goJobState and the State of the
\* JobInfo goJobInfo builds are real job states, never Unset.
C23_UnsetNeverReported ==
    (jinfo.converted /\ ~cji.nil) =>
        /\ goJobState(cji.jobState) \in RealJobStates
        /\ jinfo.info.State \in RealJobStates
        /\ jinfo.info.State # Unset

====
